---- MODULE Spec2Model ----
(***************************************************************************)
(* A model of pubchempy.py: the request builder (request), the async       *)
(* poller (get), the JSON wrapper (get_json) and the list-returning        *)
(* fetches built on it, the error classifier (PubChemHTTPError), the       *)
(* memoized accessors and bulk export of Compound and Substance, and the   *)
(* tag-filter lookup (_parse_prop).                                        *)
(*                                                                         *)
(* A Python str is a sequence of chunks: an identifier is spelled one      *)
(* character per chunk, a fixed word of the protocol ("compound", "JSON")  *)
(* is one chunk.  An optional str (a value that may be None) is a record   *)
(* [none, s].                                                              *)
(***************************************************************************)
EXTENDS Integers, Sequences, FiniteSets, TLC

VARIABLES
    rqArgs,     \* request(): the arguments of the call
    rqOut,      \* request(): what the call built, sent and gave back
    errIn,      \* PubChemHTTPError(e): the transport error e
    errOut,     \* PubChemHTTPError(e): the exception that leaves the constructor
    ppIn,       \* _parse_prop(search, proplist): the arguments
    ppOut,      \* _parse_prop(search, proplist): the value returned
    call,       \* a fetch: the function called and the arguments get() receives
    pc,         \* a fetch: where get() stands
    locIdentifier,  \* get(): its local identifier (line 82 rebinds it)
    locNamespace,   \* get(): its local namespace (line 83 rebinds it)
    response,   \* get(): its local response
    log,        \* a fetch: the requests sent (each with its answer) and the sleeps, in order
    ret,        \* get(): what it returned or raised
    out,        \* a fetch: what the function called returned or raised
    records,    \* entities: the record each instance was made from
    cache,      \* entities: the attributes memoized_property set on each instance
    hist,       \* entities: per accessor, the accesses and fetches so far and their answers
    ops,        \* entities: the number of calls made so far
    last,       \* entities: the last call, what it returned or raised, what it sent
    dl,         \* download(): its arguments other than those it hands to get()
    file,       \* download(): what is at path
    dlOut,      \* download(): what it returned or raised
    bdIn,       \* Compound.bonds: the bonds and the style of the record
    bdOut       \* Compound.bonds: what it returned or raised

requestVars == <<rqArgs, rqOut>>
classifyVars == <<errIn, errOut>>
propVars == <<ppIn, ppOut>>
getVars == <<call, pc, locIdentifier, locNamespace, response, log, ret, out>>
entityVars == <<records, cache, hist, ops, last>>
downloadVars == <<dl, file, dlOut>>
bondVars == <<bdIn, bdOut>>
vars == <<rqArgs, rqOut, errIn, errOut, ppIn, ppOut,
          call, pc, locIdentifier, locNamespace, response, log, ret, out,
          records, cache, hist, ops, last, dl, file, dlOut, bdIn, bdOut>>
\* what the steps of one component leave alone
notRequestVars ==
    <<classifyVars, propVars, getVars, entityVars, downloadVars, bondVars>>
notClassifyVars ==
    <<requestVars, propVars, getVars, entityVars, downloadVars, bondVars>>
notPropVars ==
    <<requestVars, classifyVars, getVars, entityVars, downloadVars, bondVars>>
notGetVars ==
    <<requestVars, classifyVars, propVars, entityVars, downloadVars, bondVars>>
notDownloadVars ==
    <<requestVars, classifyVars, propVars, entityVars, bondVars>>
notBondVars == <<requestVars, classifyVars, propVars, getVars, entityVars, downloadVars>>
notEntityVars ==
    <<requestVars, classifyVars, propVars, getVars, downloadVars, bondVars>>

(***************************************************************************)
(* Python values                                                           *)
(***************************************************************************)
None == [none |-> TRUE, s |-> <<>>]
Str(s) == [none |-> FALSE, s |-> s]
\* bool(x) of an optional str: None and '' are falsy
Truthy(x) == ~x.none /\ x.s # <<>>
\* '%s' % x
Fmt(x) == IF x.none THEN <<"None">> ELSE x.s

Digits == <<"0", "1", "2", "3", "4", "5", "6", "7", "8", "9">>

RECURSIVE DecStr(_)
\* str(n) of an int
DecStr(n) ==
    IF n < 0 THEN <<"-">> \o DecStr(-n)
    ELSE IF n < 10 THEN <<Digits[n + 1]>>
    ELSE DecStr(n \div 10) \o <<Digits[(n % 10) + 1]>>

\* str(x) of a list element (an int or a str)
PyStr(x) == IF x.t = "int" THEN DecStr(x.n) ELSE x.s

RECURSIVE Join(_, _)
\* sep.join(parts)
Join(parts, sep) ==
    IF parts = <<>> THEN <<>>
    ELSE IF Len(parts) = 1 THEN parts[1]
    ELSE parts[1] \o sep \o Join(Tail(parts), sep)

\* urllib's quote(): unreserved characters and the default safe '/' are kept,
\* every other character becomes its %XX escape
QuoteChar(c) ==
    CASE c = "," -> <<"%", "2", "C">>
      [] c = " " -> <<"%", "2", "0">>
      [] c = "%" -> <<"%", "2", "5">>
      [] OTHER -> <<c>>
RECURSIVE quote(_)
quote(s) == IF s = <<>> THEN <<>> ELSE QuoteChar(s[1]) \o quote(Tail(s))

\* urllib's quote_plus(), used by urlencode(): ' ' becomes '+', '/' is escaped
QuotePlusChar(c) ==
    CASE c = "," -> <<"%", "2", "C">>
      [] c = " " -> <<"+">>
      [] c = "/" -> <<"%", "2", "F">>
      [] OTHER -> <<c>>
RECURSIVE quote_plus(_)
quote_plus(s) == IF s = <<>> THEN <<>> ELSE QuotePlusChar(s[1]) \o quote_plus(Tail(s))
EncodePair(kv) == quote_plus(kv.k) \o <<"=">> \o quote_plus(kv.v.s)
urlencode(kwargs) == Join([i \in 1..Len(kwargs) |-> EncodePair(kwargs[i])], <<"&">>)

\* str.replace('/', '.')
ReplaceSlash(s) == [i \in 1..Len(s) |-> IF s[i] = "/" THEN "." ELSE s[i]]

\* filter(None, comps): the truthy components, as strs
FilterNone(comps) ==
    LET kept == SelectSeq(comps, Truthy)
    IN [i \in 1..Len(kept) |-> kept[i].s]

API_BASE == Str(<<"https://pubchem.ncbi.nlm.nih.gov/rest/pug">>)

(***************************************************************************)
(* PubChemHTTPError.__init__ (lines 741-759).  The body of the transport   *)
(* error is a JSON text, described by the types met on the path            *)
(* ['Fault']['Details'][0]: top is the type of the document ("invalid": it *)
(* does not decode), fault the type of its 'Fault' member, details the     *)
(* type of the 'Details' member of that, items the elements of a list (the *)
(* characters of a str) found there.                                       *)
(***************************************************************************)
\* x[key] for a str key, x of JSON type t whose member has type member
SubscriptKey(t, member) ==
    IF t = "obj" THEN (IF member = "absent" THEN "KeyError" ELSE "ok")
    ELSE "TypeError"

\* x[0], x of JSON type t holding items
SubscriptZero(t, items) ==
    IF t \in {"list", "str"} THEN (IF items = <<>> THEN "IndexError" ELSE "ok")
    ELSE IF t = "obj" THEN "KeyError"
    ELSE "TypeError"

\* json.load(e)['Fault']['Details'][0]: the exception raised, or "ok"
FaultDetailExc(body) ==
    IF body.top = "invalid" THEN "ValueError"
    ELSE IF SubscriptKey(body.top, body.fault) # "ok"
         THEN SubscriptKey(body.top, body.fault)
    ELSE IF SubscriptKey(body.fault, body.details) # "ok"
         THEN SubscriptKey(body.fault, body.details)
    ELSE SubscriptZero(body.details, body.items)

\* line 746: the exceptions the constructor swallows
Swallowed == {"ValueError", "IndexError", "KeyError"}

\* lines 748-759: the class raised for a status code
KindOfCode(code) ==
    CASE code = 400 -> "BadRequestError"
      [] code = 404 -> "NotFoundError"
      [] code = 405 -> "MethodNotAllowedError"
      [] code = 504 -> "TimeoutError"
      [] code = 501 -> "UnimplementedError"
      [] code = 500 -> "ServerError"
      [] OTHER -> "PubChemHTTPError"

\* The exception that leaves PubChemHTTPError(e): one of the library's classes
\* with its msg (the generic class also keeps the code), or the exception of
\* line 745 that line 746 does not catch.
PubChemHTTPError(e) ==
    LET exc == FaultDetailExc(e.body)
        msg == IF exc = "ok" THEN e.reason \o <<": ">> \o e.body.items[1]
               ELSE e.reason
        kind == KindOfCode(e.code)
    IN IF exc # "ok" /\ exc \notin Swallowed
       THEN [done |-> TRUE, kind |-> exc, msg |-> <<>>, hasCode |-> FALSE, code |-> 0]
       ELSE [done |-> TRUE, kind |-> kind, msg |-> msg,
             hasCode |-> (kind = "PubChemHTTPError"),
             code |-> IF kind = "PubChemHTTPError" THEN e.code ELSE 0]

(***************************************************************************)
(* request(): lines 44-62 build the request, lines 66-73 send it.          *)
(***************************************************************************)
\* lines 44-48: int -> str(int); str kept; any other iterable -> comma-join
NormalizeIdentifier(identifier) ==
    IF identifier.t = "int" THEN DecStr(identifier.n)
    ELSE IF identifier.t = "str" THEN identifier.s
    ELSE Join([i \in 1..Len(identifier.l) |-> PyStr(identifier.l[i])], <<",">>)

\* line 51: kwargs without its None values
FilterKwargs(kwargs) == SelectSeq(kwargs, LAMBDA kv : ~kv.v.none)

\* line 55-56
SourceIdReplaceAlways(namespace, identifier) == ReplaceSlash(identifier)
SourceIdReplace(namespace, identifier) ==
    IF namespace = Str(<<"sourceid">>) THEN ReplaceSlash(identifier) ELSE identifier

\* line 57: the identifier goes into the URL path
InUrlNoSearchtype(namespace, domain, searchtype) ==
    \/ namespace \in {Str(<<"listkey">>), Str(<<"formula">>), Str(<<"sourceid">>)}
    \/ domain = Str(<<"sources">>)
InUrl(namespace, domain, searchtype) ==
    \/ namespace \in {Str(<<"listkey">>), Str(<<"formula">>), Str(<<"sourceid">>)}
    \/ (Truthy(searchtype) /\ namespace = Str(<<"cid">>))
    \/ domain = Str(<<"sources">>)

request(identifier, namespace, domain, operation, output, searchtype, kwargs) ==
    LET id0 == NormalizeIdentifier(identifier)
        kw == FilterKwargs(kwargs)
        id == SourceIdReplace(namespace, id0)
        inUrl == InUrl(namespace, domain, searchtype)
        urlid == IF inUrl THEN Str(quote(id)) ELSE None
        postdata == IF inUrl THEN None
                    ELSE Str(Fmt(namespace) \o <<"=">> \o quote(id))
        comps == FilterNone(<<API_BASE, domain, searchtype, namespace, urlid,
                              operation, output>>)
        path == Join(comps, <<"/">>)
        apiurl == IF kw # <<>> THEN path \o <<"?">> \o urlencode(kw) ELSE path
    IN [identifier |-> id, urlid |-> urlid, postdata |-> postdata,
        comps |-> comps, apiurl |-> apiurl]

NoError == [done |-> FALSE, kind |-> "", msg |-> <<>>, hasCode |-> FALSE, code |-> 0]
NoRequest == [identifier |-> <<>>, urlid |-> None, postdata |-> None,
              comps |-> <<>>, apiurl |-> <<>>]

(***************************************************************************)
(* The inputs of request()                                                 *)
(***************************************************************************)
MaxStrLen == 2
MaxListLen == 2

Chars == {"a", "/", ","}
Strs(n) == UNION {[1..k -> Chars] : k \in 0..n}
IntIds == {0, 7, 12, 305}
IntElem(i) == [t |-> "int", n |-> i, s |-> <<>>]
StrElem(s) == [t |-> "str", n |-> 0, s |-> s]
Elems == {IntElem(i) : i \in IntIds} \cup {StrElem(s) : s \in Strs(1)}
IntId(i) == [t |-> "int", n |-> i, s |-> <<>>, l |-> <<>>]
StrId(s) == [t |-> "str", n |-> 0, s |-> s, l |-> <<>>]
ListId(l) == [t |-> "list", n |-> 0, s |-> <<>>, l |-> l]
Identifiers ==
    {IntId(i) : i \in IntIds} \cup {StrId(s) : s \in Strs(MaxStrLen)}
    \cup {ListId(l) : l \in UNION {[1..k -> Elems] : k \in 0..MaxListLen}}
Namespaces == {Str(<<"cid">>), Str(<<"name">>), Str(<<"formula">>), Str(<<"listkey">>),
               Str(<<"sourceid">>), Str(<<"sourceid/DTP.NCI">>)}
Domains == {Str(<<"compound">>), Str(<<"sources">>)}
Searchtypes == {None, Str(<<"substructure">>)}
\* operation, output and keyword options
Tails ==
    {[operation |-> None, output |-> Str(<<"JSON">>), kwargs |-> <<>>],
     [operation |-> Str(<<"synonyms">>), output |-> Str(<<"SDF">>),
      kwargs |-> <<[k |-> <<"record_type">>, v |-> Str(<<"3d">>)],
                   [k |-> <<"image_size">>, v |-> None]>>]}
RequestArgs ==
    {[identifier |-> i, namespace |-> n, domain |-> d, searchtype |-> st,
      operation |-> tl.operation, output |-> tl.output, kwargs |-> tl.kwargs] :
        i \in Identifiers, n \in Namespaces, d \in Domains, st \in Searchtypes,
        tl \in Tails}

\* The transport errors urlopen raises in the runs of request()
DetailBody(items) == [top |-> "obj", fault |-> "obj", details |-> "list", items |-> items]
TransportErrors ==
    {[code |-> 404, reason |-> <<"Not Found">>, body |-> DetailBody(<<<<"No CID found">>>>)],
     [code |-> 503, reason |-> <<"Busy">>, body |-> DetailBody(<<>>)]}

IdleArgs == [identifier |-> IntId(0), namespace |-> None, domain |-> None,
             searchtype |-> None, operation |-> None, output |-> None, kwargs |-> <<>>]
IdleOut == [sent |-> FALSE, req |-> NoRequest, response |-> None, raised |-> NoError]
RequestIdle == rqArgs = IdleArgs /\ rqOut = IdleOut

\* request(): the call builds the request, sends it, and returns the response
RequestReturns ==
    /\ ~rqOut.sent
    /\ rqOut' = [sent |-> TRUE,
                 req |-> request(rqArgs.identifier, rqArgs.namespace, rqArgs.domain,
                                 rqArgs.operation, rqArgs.output, rqArgs.searchtype,
                                 rqArgs.kwargs),
                 response |-> Str(<<"response">>), raised |-> NoError]
    /\ UNCHANGED <<rqArgs, notRequestVars>>

\* request(): urlopen raises HTTPError, which line 73 turns into PubChemHTTPError
RequestRaises ==
    /\ ~rqOut.sent
    /\ \E e \in TransportErrors :
          rqOut' = [sent |-> TRUE,
                    req |-> request(rqArgs.identifier, rqArgs.namespace, rqArgs.domain,
                                    rqArgs.operation, rqArgs.output, rqArgs.searchtype,
                                    rqArgs.kwargs),
                    response |-> None, raised |-> PubChemHTTPError(e)]
    /\ UNCHANGED <<rqArgs, notRequestVars>>

(***************************************************************************)
(* The inputs of PubChemHTTPError(e)                                       *)
(***************************************************************************)
MaxDetails == 2

JsonScalars == {"null", "num", "str", "list"}
DetailStrs == {<<"x">>, <<"y">>}
DetailSeqs == UNION {[1..k -> DetailStrs] : k \in 0..MaxDetails}
Bodies ==
    {[top |-> t, fault |-> "absent", details |-> "absent", items |-> <<>>] :
        t \in JsonScalars \cup {"invalid", "obj"}}
    \cup {[top |-> "obj", fault |-> f, details |-> "absent", items |-> <<>>] :
        f \in JsonScalars \cup {"obj"}}
    \cup {[top |-> "obj", fault |-> "obj", details |-> d, items |-> <<>>] :
        d \in {"null", "num", "obj"}}
    \cup {[top |-> "obj", fault |-> "obj", details |-> d, items |-> it] :
        d \in {"list", "str"}, it \in DetailSeqs}
StatusCodes == {400, 404, 405, 500, 501, 504, 403, 429, 503}
Reasons == {<<"Not Found">>, <<"Bad">>}
HTTPErrors == {[code |-> c, reason |-> r, body |-> b] :
                  c \in StatusCodes, r \in Reasons, b \in Bodies}

IdleHTTPError == [code |-> 0, reason |-> <<>>,
                  body |-> [top |-> "invalid", fault |-> "absent", details |-> "absent",
                            items |-> <<>>]]
ClassifyIdle == errIn = IdleHTTPError /\ errOut = NoError

\* request() line 73: raise PubChemHTTPError(e)
Classify ==
    /\ ~errOut.done
    /\ errOut' = PubChemHTTPError(errIn)
    /\ UNCHANGED <<errIn, notClassifyVars>>

(***************************************************************************)
(* _parse_prop (lines 564-568).  A urn and a search filter are mappings    *)
(* from some of the tag fields to values; the value of an entry is a       *)
(* mapping with one key, the kind of the value.                            *)
(***************************************************************************)
\* line 566: item in i['urn'].items(), for some item / for every item of search
MatchesAny(search, entry) ==
    \E k \in DOMAIN search : k \in DOMAIN entry.urn /\ entry.urn[k] = search[k]
Matches(search, entry) ==
    \A k \in DOMAIN search : k \in DOMAIN entry.urn /\ entry.urn[k] = search[k]

NoValue == [found |-> FALSE, v |-> 0]
_parse_prop(search, proplist) ==
    LET props == SelectSeq(proplist, LAMBDA i : Matches(search, i))
    IN IF Len(props) > 0
       THEN [found |-> TRUE, v |-> props[1].value[CHOOSE k \in DOMAIN props[1].value : TRUE]]
       ELSE NoValue

MaxProps == 3

TagValues == [label |-> {"Mass", "Weight"}, name |-> {"Exact", "MonoIsotopic"}]
\* the mappings from the fields D to their values
TagMaps(D) == {m \in [D -> UNION {TagValues[k] : k \in D}] : \A k \in D : m[k] \in TagValues[k]}
Urns == TagMaps({"label"}) \cup TagMaps({"label", "name"})
Searches == UNION {TagMaps(D) : D \in SUBSET {"label", "name"}}
PropertyEntries == {[urn |-> u, value |-> val] :
                      u \in Urns, val \in {[sval |-> 1], [fval |-> 2]}}
Proplists == UNION {[1..k -> PropertyEntries] : k \in 0..MaxProps}

IdleProp == [search |-> <<>>, proplist |-> <<>>]
NotParsed == [done |-> FALSE, found |-> FALSE, v |-> 0]
PropIdle == ppIn = IdleProp /\ ppOut = NotParsed

\* a property accessor of Compound calls _parse_prop
ParseProp ==
    /\ ~ppOut.done
    /\ LET r == _parse_prop(ppIn.search, ppIn.proplist)
       IN ppOut' = [done |-> TRUE, found |-> r.found, v |-> r.v]
    /\ UNCHANGED <<ppIn, notPropVars>>

(***************************************************************************)
(* get() (lines 76-92), get_json() (lines 95-101) and the list-returning   *)
(* fetches (lines 104-235).  The service answers each request with a JSON  *)
(* document that holds a waiting indicator (with a ListKey, or without     *)
(* one) or with the payload of the operation and output asked for, or      *)
(* with an HTTP error.                                                     *)
(***************************************************************************)
JSON == Str(<<"JSON">>)

NoResponse == [kind |-> "none", listkey |-> None, operation |-> None, output |-> None]
Waiting(k) == [kind |-> "waiting", listkey |-> Str(k), operation |-> None, output |-> None]
WaitingNoKey == [kind |-> "waiting", listkey |-> None, operation |-> None, output |-> None]
\* the payload of the service for a request
PayloadFor(req) == [kind |-> "payload", listkey |-> None,
                    operation |-> req.operation, output |-> req.output]

\* lines 81 and 84: 'Waiting' in status and 'ListKey' in status['Waiting']
IsWaiting(resp) == resp.kind = "waiting" /\ ~resp.listkey.none

\* line 78: the fetch may be answered asynchronously
IsAsync(c) == Truthy(c.searchtype) \/ c.namespace = Str(<<"formula">>)

ReqArgs(identifier, namespace, domain, operation, output, searchtype, kwargs) ==
    [identifier |-> identifier, namespace |-> namespace, domain |-> domain,
     operation |-> operation, output |-> output, searchtype |-> searchtype,
     kwargs |-> kwargs]

\* line 79: the first request of an async fetch
FirstArgs(c) ==
    ReqArgs(c.identifier, c.namespace, c.domain, None, JSON, c.searchtype, c.kwargs)
\* line 86: a poll (searchtype is not passed on)
PollArgsOfCaller(c, identifier, namespace) ==
    ReqArgs(c.identifier, c.namespace, c.domain, c.operation, JSON, None, c.kwargs)
PollArgs(c, identifier, namespace) ==
    ReqArgs(identifier, namespace, c.domain, c.operation, JSON, None, c.kwargs)
\* line 89: the request for the output the caller asked for
FinalArgs(c, identifier, namespace) ==
    ReqArgs(identifier, namespace, c.domain, c.operation, c.output, c.searchtype, c.kwargs)
\* line 91: the request of a fetch that is not async
DirectArgsForcedJson(c) ==
    ReqArgs(c.identifier, c.namespace, c.domain, c.operation, JSON, c.searchtype, c.kwargs)
DirectArgs(c) ==
    ReqArgs(c.identifier, c.namespace, c.domain, c.operation, c.output, c.searchtype,
            c.kwargs)

\* line 99: the errors get_json turns into None
CaughtAll(kind) == TRUE
Caught(kind) == kind = "NotFoundError"

JsonFns == {"get_json", "get_compounds", "get_substances", "get_assays", "get_properties",
            "get_synonyms", "get_cids", "get_sids", "get_aids"}
ListFns == JsonFns \ {"get_json"}
IdFns == {"get_cids", "get_sids", "get_aids"}

\* A value a fetch returns: bytes (a response), the JSON decoded from a response,
\* None, or a list (here: of the records of a payload)
Bytes(resp) == [t |-> "bytes", resp |-> resp, items |-> <<>>]
Json(resp) == [t |-> "json", resp |-> resp, items |-> <<>>]
NoneValue == [t |-> "None", resp |-> NoResponse, items |-> <<>>]
List(items) == [t |-> "list", resp |-> NoResponse, items |-> items]

Returned(v) == [state |-> "returned", value |-> v, error |-> NoError]
Raised(e) == [state |-> "raised", value |-> NoneValue, error |-> e]
Pending == [state |-> "pending", value |-> NoneValue, error |-> NoError]
\* a Python exception that is not one of the library's
PyError(kind) == [done |-> TRUE, kind |-> kind, msg |-> <<>>, hasCode |-> FALSE, code |-> 0]

\* get_json (lines 97-101) around the outcome r of get()
get_json(r) ==
    IF r.state = "returned" THEN Returned(Json(r.value.resp))
    ELSE IF Caught(r.error.kind) THEN Returned(NoneValue)
    ELSE r

\* lines 114, 129, 142, 196, 205, 210-215: the list taken out of the results of
\* get_json; results is falsy when it is None
ListOf(f, r) ==
    IF r.state = "raised" THEN r
    ELSE IF r.value.t = "None" THEN Returned(List(<<>>))
    ELSE IF r.value.resp.kind = "payload" THEN Returned(List(<<r.value.resp>>))
    ELSE IF f \in IdFns THEN Returned(NoneValue)
    ELSE Raised(PyError("KeyError"))

\* what the function called gives its caller when get() ends with r
Outcome(f, r) ==
    IF f = "get" THEN r
    ELSE IF f = "get_json" THEN get_json(r)
    ELSE ListOf(f, get_json(r))

\* the arguments get() receives from the function called with the arguments a
GetArgs(f, a) ==
    LET compound == Str(<<"compound">>)
        op(o) == [a EXCEPT !.operation = Str(<<o>>), !.output = JSON]
    IN CASE f = "get" -> a
         [] f = "get_json" -> [a EXCEPT !.output = JSON]
         [] f = "get_compounds" ->
                [a EXCEPT !.domain = compound, !.operation = None, !.output = JSON]
         [] f = "get_substances" ->
                [a EXCEPT !.domain = Str(<<"substance">>), !.operation = None,
                          !.searchtype = None, !.output = JSON]
         [] f = "get_assays" ->
                [a EXCEPT !.domain = Str(<<"assay">>), !.operation = None,
                          !.searchtype = None, !.output = JSON]
         [] f = "get_properties" ->
                [a EXCEPT !.domain = compound,
                          !.operation = Str(<<"property/MolecularWeight">>),
                          !.output = JSON]
         [] f = "get_synonyms" -> op("synonyms")
         [] f = "get_cids" -> op("cids")
         [] f = "get_sids" -> op("sids")
         [] f = "get_aids" -> op("aids")

MaxPolls == 3

ListKeys == {<<"k1">>, <<"k2">>}
GetErrors ==
    {[code |-> c, reason |-> <<"reason">>, body |-> DetailBody(<<<<"detail">>>>)] :
        c \in {400, 404, 405, 500, 501, 504, 503}}
\* what the service may answer to the request req
Answers(req) ==
    {[ok |-> TRUE, resp |-> r, err |-> NoError] :
        r \in {Waiting(k) : k \in ListKeys} \cup {WaitingNoKey, PayloadFor(req)}}
    \cup {[ok |-> FALSE, resp |-> NoResponse, err |-> PubChemHTTPError(e)] : e \in GetErrors}

CallerArgs ==
    {ReqArgs(i, n, d, o, fmt, st, kw) :
        i \in {IntId(2244), StrId(<<"C6H6">>)},
        n \in {Str(<<"cid">>), Str(<<"name">>), Str(<<"formula">>)},
        d \in {Str(<<"compound">>), Str(<<"substance">>)},
        o \in {None, Str(<<"cids">>)},
        fmt \in {JSON, Str(<<"SDF">>)},
        st \in {None, Str(<<"substructure">>)},
        kw \in {<<>>, <<[k |-> <<"record_type">>, v |-> Str(<<"3d">>)]>>}}
Calls == {[fn |-> f, args |-> GetArgs(f, a)] : f \in JsonFns \cup {"get"}, a \in CallerArgs}

RequestEvent(req, answer) == [ev |-> "request", req |-> req, answer |-> answer, secs |-> 0]
SleepEvent(secs) ==
    [ev |-> "sleep", req |-> IdleArgs,
     answer |-> [ok |-> TRUE, resp |-> NoResponse, err |-> NoError], secs |-> secs]
\* the number of requests in the log l
Requests(l) == Cardinality({i \in 1..Len(l) : l[i].ev = "request"})

IdleCall == [fn |-> "none", args |-> IdleArgs]
GetIdle ==
    /\ call = IdleCall /\ pc = "idle" /\ locIdentifier = IntId(0) /\ locNamespace = None
    /\ response = NoResponse /\ log = <<>> /\ ret = Pending /\ out = Pending

\* get() ends: it returns the response resp, and the function called ends with it
Return(resp) ==
    /\ pc' = "done"
    /\ ret' = Returned(Bytes(resp))
    /\ out' = Outcome(call.fn, Returned(Bytes(resp)))

\* request() raised e and get() raised an error of its own in its place
RaiseOther(e) ==
    /\ pc' = "done"
    /\ ret' = Raised(PyError("PubChemPyError"))
    /\ out' = Outcome(call.fn, Raised(PyError("PubChemPyError")))

\* request() raised e (line 73): nothing in get() catches it
Raise(e) ==
    /\ pc' = "done"
    /\ ret' = Raised(e)
    /\ out' = Outcome(call.fn, Raised(e))

\* lines 79-83: the first request of an async fetch
GetFirst ==
    /\ pc = "get" /\ IsAsync(call.args)
    /\ \E a \in Answers(FirstArgs(call.args)) :
          /\ log' = Append(log, RequestEvent(FirstArgs(call.args), a))
          /\ IF ~a.ok
             THEN Raise(a.err) /\ UNCHANGED <<response, locIdentifier, locNamespace>>
             ELSE /\ response' = a.resp
                  /\ IF IsWaiting(a.resp)
                     THEN /\ locIdentifier' = StrId(a.resp.listkey.s)
                          /\ locNamespace' = Str(<<"listkey">>)
                          /\ pc' = "sleep"
                          /\ UNCHANGED <<ret, out>>
                     ELSE Return(a.resp) /\ UNCHANGED <<locIdentifier, locNamespace>>
    /\ UNCHANGED <<call, notGetVars>>

\* line 85: time.sleep(2)
GetSleep ==
    /\ pc = "sleep"
    /\ log' = Append(log, SleepEvent(2))
    /\ pc' = "poll"
    /\ UNCHANGED <<call, locIdentifier, locNamespace, response, ret, out, notGetVars>>

\* a poll of a loop that gives up: a second answer with a ticket raises
GetPollGivesUp ==
    /\ pc = "poll"
    /\ LET req == PollArgs(call.args, locIdentifier, locNamespace)
       IN \E a \in Answers(req) :
            /\ IsWaiting(a.resp) => Requests(log) < MaxPolls
            /\ log' = Append(log, RequestEvent(req, a))
            /\ IF ~a.ok
               THEN Raise(a.err) /\ UNCHANGED response
               ELSE /\ response' = a.resp
                    /\ IF IsWaiting(a.resp)
                       THEN IF Requests(log) >= 2 THEN Raise(PyError("TimeoutError"))
                            ELSE pc' = "sleep" /\ UNCHANGED <<ret, out>>
                       ELSE IF call.args.output # JSON
                            THEN pc' = "final" /\ UNCHANGED <<ret, out>>
                       ELSE Return(a.resp)
    /\ UNCHANGED <<call, locIdentifier, locNamespace, notGetVars>>

\* lines 86-88: a poll, and the test of the loop; the service stops answering
\* with a ticket after MaxPolls polls
GetPoll ==
    /\ pc = "poll"
    /\ LET req == PollArgs(call.args, locIdentifier, locNamespace)
       IN \E a \in Answers(req) :
            /\ IsWaiting(a.resp) => Requests(log) < MaxPolls
            /\ log' = Append(log, RequestEvent(req, a))
            /\ IF ~a.ok
               THEN Raise(a.err) /\ UNCHANGED response
               ELSE /\ response' = a.resp
                    /\ IF IsWaiting(a.resp) THEN pc' = "sleep" /\ UNCHANGED <<ret, out>>
                       ELSE IF call.args.output # JSON
                            THEN pc' = "final" /\ UNCHANGED <<ret, out>>
                       ELSE Return(a.resp)
    /\ UNCHANGED <<call, locIdentifier, locNamespace, notGetVars>>

\* line 89: the request for the output the caller asked for
GetFinal ==
    /\ pc = "final"
    /\ LET req == FinalArgs(call.args, locIdentifier, locNamespace)
       IN \E a \in Answers(req) :
            /\ log' = Append(log, RequestEvent(req, a))
            /\ IF ~a.ok THEN Raise(a.err) /\ UNCHANGED response
               ELSE response' = a.resp /\ Return(a.resp)
    /\ UNCHANGED <<call, locIdentifier, locNamespace, notGetVars>>

\* line 91: the one request of a fetch that is not async
GetDirect ==
    /\ pc = "get" /\ ~IsAsync(call.args)
    /\ LET req == DirectArgs(call.args)
       IN \E a \in Answers(req) :
            /\ log' = Append(log, RequestEvent(req, a))
            /\ IF ~a.ok THEN Raise(a.err) /\ UNCHANGED response
               ELSE response' = a.resp /\ Return(a.resp)
    /\ UNCHANGED <<call, locIdentifier, locNamespace, notGetVars>>

(***************************************************************************)
(* download() (lines 244-251): get(), then the test of the destination and *)
(* the write.  What is at path is nothing, a regular file or a directory.  *)
(* response is what urlopen(...).read() gave: bytes under Python 3, where  *)
(* a file opened with 'w' takes only str, and a str under Python 2; the    *)
(* module imports for both (lines 14-22).                                  *)
(***************************************************************************)
NoFile == [kind |-> "absent", content |-> NoResponse]
RegularFile(content) == [kind |-> "file", content |-> content]
Directory == [kind |-> "dir", content |-> NoResponse]
\* what a file holds before download: no response of the service
OldContent == [NoResponse EXCEPT !.kind = "old"]

\* os.path.isfile(path) (line 248)
isfile(f) == f.kind = "file"
\* line 248: if not overwrite and os.path.isfile(path)
MustNotExist(overwrite, f) == ~overwrite /\ isfile(f)

\* lines 247-251 once get() has ended with r: what is at path afterwards and
\* what download returns or raises
download(d, f, r) ==
    IF r.state = "raised" THEN [file |-> f, out |-> r]
    ELSE IF MustNotExist(d.overwrite, f)
    THEN [file |-> f, out |-> Raised(PyError("IOError"))]
    ELSE IF f.kind = "dir" THEN [file |-> f, out |-> Raised(PyError("IsADirectoryError"))]
    ELSE IF d.python = 3
    THEN [file |-> RegularFile(NoResponse), out |-> Raised(PyError("TypeError"))]
    ELSE [file |-> RegularFile(r.value.resp), out |-> Returned(NoneValue)]

NoDownload == [active |-> FALSE, overwrite |-> FALSE, python |-> 3, before |-> NoFile]
DownloadIdle == dl = NoDownload /\ file = NoFile /\ dlOut = Pending

\* the calls of get() that download makes: line 247 passes outformat as output
DownloadCalls ==
    {[fn |-> "get", args |-> a] :
        a \in {c \in CallerArgs : c.kwargs = <<>> /\ c.domain = Str(<<"compound">>)}}

\* lines 248-251: get() has ended
DownloadWrite ==
    /\ dl.active /\ pc = "done" /\ dlOut = Pending
    /\ \E r \in {download(dl, file, ret)} :
          file' = r.file /\ dlOut' = r.out
    /\ UNCHANGED <<dl, getVars, notDownloadVars>>

(***************************************************************************)
(* Compound.bonds (lines 347-355).  record['bonds'] holds the arrays aid1, *)
(* aid2 and order, here one triple per bond; the style of the first        *)
(* conformer holds the arrays annotation, aid1 and aid2, here one triple   *)
(* per annotation.                                                         *)
(***************************************************************************)
\* a dict of blist (line 349), with the key 'style' once line 354 has set it
Bond(aid1, aid2, order) ==
    [aid1 |-> aid1, aid2 |-> aid2, order |-> order, styled |-> FALSE, style |-> 0]
\* b.values() (line 353)
Values(b) == {b.aid1, b.aid2, b.order} \cup (IF b.styled THEN {b.style} ELSE {})
\* line 353: all(aid in b.values() for aid in [style['aid1'][i], style['aid2'][i]])
BondHas(b, s) == s.aid1 \in Values(b) /\ s.aid2 \in Values(b)

RECURSIVE Annotate(_, _, _)
\* lines 352-354 up to annotation k: the bonds, the bond each annotation went to,
\* and whether [...][0] found no bond
Annotate(blist, style, k) ==
    IF k = 0 THEN [blist |-> blist, attached |-> <<>>, raised |-> FALSE]
    ELSE LET acc == Annotate(blist, style, k - 1)
             found == {j \in 1..Len(acc.blist) : BondHas(acc.blist[j], style[k])}
             first == CHOOSE j \in found : \A j2 \in found : j <= j2
         IN IF acc.raised THEN acc
            ELSE IF found = {} THEN [acc EXCEPT !.raised = TRUE]
            ELSE [blist |-> [acc.blist EXCEPT ![first].styled = TRUE,
                                              ![first].style = style[k].annotation],
                  attached |-> Append(acc.attached, first),
                  raised |-> FALSE]

\* bonds (lines 347-355) of a record with the bonds blist and the style given
\* (present is whether the conformer has the key 'style')
bonds(blist, present, style) ==
    IF present THEN Annotate(blist, style, Len(style))
    ELSE [blist |-> blist, attached |-> <<>>, raised |-> FALSE]

MaxBonds == 2
MaxAnnotations == 2
AtomIds == 1..3
Orders == {1, 4}
Annotations == {5, 6}
AtomPairs == {p \in AtomIds \X AtomIds : p[1] # p[2]}
BondLists ==
    UNION {[1..n -> {Bond(p[1], p[2], o) : p \in AtomPairs, o \in Orders}] : n \in 1..MaxBonds}
Styles ==
    UNION {[1..n -> {[annotation |-> a, aid1 |-> p[1], aid2 |-> p[2]] :
                        a \in Annotations, p \in AtomPairs}] : n \in 0..MaxAnnotations}

NoBonds == [blist |-> <<>>, present |-> FALSE, style |-> <<>>]
NotComputed == [done |-> FALSE, blist |-> <<>>, attached |-> <<>>, raised |-> FALSE]
BondsIdle == bdIn = NoBonds /\ bdOut = NotComputed

\* a caller reads Compound.bonds
Bonds ==
    /\ ~bdOut.done
    /\ \E r \in {bonds(bdIn.blist, bdIn.present, bdIn.style)} :
          bdOut' = [done |-> TRUE, blist |-> IF r.raised THEN <<>> ELSE r.blist,
                    attached |-> r.attached, raised |-> r.raised]
    /\ UNCHANGED <<bdIn, notBondVars>>

(***************************************************************************)
(* Compound and Substance: the memoized accessors (lines 254-266, 357-379, *)
(* 657-691) and to_dict (lines 295-303, 602-613).  A record is known by    *)
(* its identity alone: the cid of a Compound, the sid of a Substance and   *)
(* the cid of its standardized compound, each of which may be missing; the *)
(* rest of a record is taken to be complete.                               *)
(***************************************************************************)
Absent == [none |-> TRUE, n |-> 0]
Id(n) == [none |-> FALSE, n |-> n]
Record(cid, sid, std) == [cid |-> cid, sid |-> sid, std |-> std]

Instances == {"c1", "c2", "s1"}
ClassOf(i) == IF i = "s1" THEN "Substance" ELSE "Compound"

\* dir(Compound) and dir(Substance), the names that are properties, with the
\* decorator of each (of the record-derived accessors of Compound, seven are kept)
Declared(cls) ==
    IF cls = "Compound"
    THEN <<[name |-> "aids", decorator |-> "memoized_property"],
           [name |-> "atoms", decorator |-> "property"],
           [name |-> "bonds", decorator |-> "property"],
           [name |-> "charge", decorator |-> "property"],
           [name |-> "cid", decorator |-> "property"],
           [name |-> "elements", decorator |-> "property"],
           [name |-> "molecular_formula", decorator |-> "property"],
           [name |-> "sids", decorator |-> "memoized_property"],
           [name |-> "synonyms", decorator |-> "memoized_property"],
           [name |-> "xlogp", decorator |-> "property"]>>
    ELSE <<[name |-> "aids", decorator |-> "memoized_property"],
           [name |-> "cids", decorator |-> "memoized_property"],
           [name |-> "deposited_compound", decorator |-> "property"],
           [name |-> "sid", decorator |-> "property"],
           [name |-> "source_id", decorator |-> "property"],
           [name |-> "source_name", decorator |-> "property"],
           [name |-> "standardized_cid", decorator |-> "property"],
           [name |-> "standardized_compound", decorator |-> "memoized_property"],
           [name |-> "synonyms", decorator |-> "property"]>>
MemoFields(cls) ==
    {Declared(cls)[k].name : k \in {j \in 1..Len(Declared(cls)) :
                                     Declared(cls)[j].decorator = "memoized_property"}}
Cells == {c \in Instances \X {"synonyms", "sids", "aids", "cids", "standardized_compound"} :
             c[2] \in MemoFields(ClassOf(c[1]))}

\* line 266: memoized_property returns property(fget_memoized), so
\* isinstance(getattr(cls, p), property) holds for both decorators
IsProperty(d) == d.decorator \in {"property", "memoized_property"}

\* lines 302 and 611-612: the names to_dict exports when it is given none
DefaultProperties(cls) ==
    LET kept == SelectSeq(Declared(cls),
                          LAMBDA d : IsProperty(d) /\
                                     (cls = "Substance" => d.name # "deposited_compound"))
    IN [k \in 1..Len(kept) |-> kept[k].name]

\* the answer of the service with status code (200: the payload)
AnswerFor(req, code) ==
    IF code = 200 THEN [ok |-> TRUE, resp |-> PayloadFor(req), err |-> NoError]
    ELSE [ok |-> FALSE, resp |-> NoResponse,
          err |-> PubChemHTTPError([code |-> code, reason |-> <<"reason">>,
                                    body |-> DetailBody(<<<<"detail">>>>)])]
AnswerCodes == {200, 404, 500}

\* get() for a request that is not async (line 91), answered a
GetOnce(a) == IF a.ok THEN Returned(Bytes(a.resp)) ELSE Raised(a.err)

\* results[...][0][...] if results else [] (lines 365, 372, 379, 683, 691)
FirstInformation(r) ==
    IF r.state = "raised" THEN r
    ELSE IF r.value.t = "None" THEN Returned(List(<<>>))
    ELSE IF r.value.resp.kind = "payload" THEN Returned(List(<<r.value.resp>>))
    ELSE Raised(PyError("KeyError"))

\* Compound(record) made by from_cid (lines 286-287)
CompoundValue(resp) == [t |-> "Compound", resp |-> resp, items |-> <<>>]

Sent(req, o) == [out |-> o, reqs |-> <<req>>]
NothingSent(o) == [out |-> o, reqs |-> <<>>]

\* The decorated functions.  Compound.synonyms, sids, aids (lines 357-379): a
\* fetch when self.cid is truthy, else the function ends without a return.
\* Substance.cids, aids (lines 677-691): self.sid is record['sid']['id'].
\* Substance.standardized_compound (lines 657-665): Compound.from_cid calls
\* request() itself, not get_json.
fget(rec, cls, f, code) ==
    LET cidArgs(id, o) == ReqArgs(IntId(id), Str(<<"cid">>), Str(<<"compound">>), o, JSON,
                                  None, <<>>)
        sidArgs(o) == ReqArgs(IntId(rec.sid.n), Str(<<"sid">>), Str(<<"substance">>),
                              Str(<<o>>), JSON, None, <<>>)
    IN IF cls = "Compound"
       THEN IF ~rec.cid.none /\ rec.cid.n # 0
            THEN LET req == DirectArgs(cidArgs(rec.cid.n, Str(<<f>>)))
                 IN Sent(req, FirstInformation(get_json(GetOnce(AnswerFor(req, code)))))
            ELSE NothingSent(Returned(NoneValue))
       ELSE IF f = "standardized_compound"
            THEN IF ~rec.std.none
                 THEN LET req == cidArgs(rec.std.n, None)
                          a == AnswerFor(req, code)
                      IN Sent(req, IF a.ok THEN Returned(CompoundValue(a.resp))
                                   ELSE Raised(a.err))
                 ELSE NothingSent(Returned(NoneValue))
       ELSE IF rec.sid.none THEN NothingSent(Raised(PyError("KeyError")))
       ELSE LET req == DirectArgs(sidArgs(f))
            IN Sent(req, FirstInformation(get_json(GetOnce(AnswerFor(req, code)))))

Unset == [set |-> FALSE, value |-> NoneValue]
\* line 263: hasattr(self, attr_name)
HasAttrNever(c, cell) == FALSE
HasAttr(c, cell) == c[cell].set

\* fget_memoized, were it to catch what fget raises and keep None
memoized_property_quiet(c, rec, cell, code) ==
    IF HasAttr(c, cell)
    THEN [cache |-> c, out |-> Returned(c[cell].value), reqs |-> <<>>]
    ELSE LET r == fget(rec, ClassOf(cell[1]), cell[2], code)
         IN [cache |-> [c EXCEPT ![cell] =
                           [set |-> TRUE,
                            value |-> IF r.out.state = "returned" THEN r.out.value
                                      ELSE NoneValue]],
             out |-> IF r.out.state = "returned" THEN r.out ELSE Returned(NoneValue),
             reqs |-> r.reqs]
\* fget_memoized (lines 262-265) on the instance of cell, c the attributes set
\* so far: the attributes after the access, what it returned or raised, what it sent
memoized_property(c, rec, cell, code) ==
    IF HasAttr(c, cell)
    THEN [cache |-> c, out |-> Returned(c[cell].value), reqs |-> <<>>]
    ELSE LET r == fget(rec, ClassOf(cell[1]), cell[2], code)
         IN [cache |-> IF r.out.state = "returned"
                       THEN [c EXCEPT ![cell] = [set |-> TRUE, value |-> r.out.value]]
                       ELSE c,
             out |-> r.out, reqs |-> r.reqs]

\* getattr(self, p) for a name p of to_dict
GetAttr(c, rec, i, p, code) ==
    IF p \in MemoFields(ClassOf(i)) THEN memoized_property(c, rec, <<i, p>>, code)
    ELSE IF p = "sid" /\ rec.sid.none
         THEN [cache |-> c, out |-> Raised(PyError("KeyError")), reqs |-> <<>>]
    ELSE [cache |-> c, out |-> Returned(NoneValue), reqs |-> <<>>]

DictValue == [t |-> "dict", resp |-> NoResponse, items |-> <<>>]

RECURSIVE Export(_, _, _, _, _, _)
\* {p: getattr(self, p) for p in properties} (lines 303, 613) up to name k: the
\* attributes, the names exported, the names read with what each read sent, the
\* requests sent, the error that ended it
Export(c, rec, i, properties, codes, k) ==
    IF k = 0
    THEN [cache |-> c, names |-> <<>>, reads |-> <<>>, reqs |-> <<>>,
          out |-> Returned(DictValue)]
    ELSE LET acc == Export(c, rec, i, properties, codes, k - 1)
             p == properties[k]
             r == GetAttr(acc.cache, rec, i, p,
                          IF p \in DOMAIN codes THEN codes[p] ELSE 200)
         IN IF acc.out.state = "raised" THEN acc
            ELSE [cache |-> r.cache,
                  names |-> IF r.out.state = "raised" THEN acc.names
                            ELSE Append(acc.names, p),
                  reads |-> Append(acc.reads, [name |-> p, reqs |-> r.reqs]),
                  reqs |-> acc.reqs \o r.reqs,
                  out |-> IF r.out.state = "raised" THEN r.out ELSE acc.out]

\* to_dict (lines 295-303, 602-613); properties is <<>> when the caller gives none
to_dict(c, rec, i, properties, codes) ==
    LET ps == IF properties = <<>> THEN DefaultProperties(ClassOf(i)) ELSE properties
    IN Export(c, rec, i, ps, codes, Len(ps))

MaxOps == 2

NoHist == [accesses |-> 0, fetches |-> 0, notfounds |-> 0, errors |-> 0]
\* the history of an accessor after one more access that sent reqs, answered code
Recorded(h, reqs, code) ==
    [accesses |-> h.accesses + 1,
     fetches |-> h.fetches + Len(reqs),
     notfounds |-> h.notfounds + (IF reqs # <<>> /\ code = 404 THEN 1 ELSE 0),
     errors |-> h.errors + (IF reqs # <<>> /\ code \notin {200, 404} THEN 1 ELSE 0)]

NoCall == [op |-> "none", inst |-> "", field |-> "", default |-> FALSE,
           out |-> Pending, reqs |-> <<>>, names |-> <<>>, filled |-> {}]
EntityIdle ==
    /\ records = <<>> /\ cache = <<>> /\ hist = <<>> /\ ops = 0 /\ last = NoCall

\* the accessors whose attribute is set in c2 and not in c1
Filled(c1, c2) == {cell \in Cells : c2[cell].set /\ ~c1[cell].set}

\* a caller reads a memoized accessor of an instance
Access ==
    /\ ops < MaxOps
    /\ \E cell \in Cells, code \in AnswerCodes :
          \E r \in {memoized_property(cache, records[cell[1]], cell, code)} :
             /\ cache' = r.cache
             /\ hist' = [hist EXCEPT ![cell] = Recorded(@, r.reqs, code)]
             /\ last' = [op |-> "access", inst |-> cell[1], field |-> cell[2],
                          default |-> FALSE, out |-> r.out, reqs |-> r.reqs,
                          names |-> <<>>, filled |-> Filled(cache, r.cache)]
    /\ ops' = ops + 1
    /\ UNCHANGED <<records, notEntityVars>>

\* a caller exports an instance with to_dict, with no property list or with one;
\* the service answers every fetch of one export with the same status
ToDict ==
    /\ ops < MaxOps
    /\ \E i \in Instances, properties \in {<<>>, <<"synonyms">>} :
        \E code \in AnswerCodes :
          \E r \in {to_dict(cache, records[i], i, properties,
                              [f \in MemoFields(ClassOf(i)) |-> code])} :
             /\ cache' = r.cache
             /\ hist' = [cell \in Cells |->
                           LET ks == {k \in 1..Len(r.reads) : r.reads[k].name = cell[2]}
                           IN IF cell[1] = i /\ ks # {}
                              THEN Recorded(hist[cell], r.reads[CHOOSE k \in ks : TRUE].reqs,
                                            code)
                              ELSE hist[cell]]
             /\ last' = [op |-> "to_dict", inst |-> i, field |-> "",
                          default |-> (properties = <<>>), out |-> r.out, reqs |-> r.reqs,
                          names |-> r.names, filled |-> Filled(cache, r.cache)]
    /\ ops' = ops + 1
    /\ UNCHANGED <<records, notEntityVars>>

(***************************************************************************)
(* Specifications                                                          *)
(***************************************************************************)
InitEntity ==
    /\ records \in {[i \in Instances |->
                        IF i = "c1" THEN Record(c, Absent, Absent)
                        ELSE IF i = "c2" THEN Record(Id(1), Absent, Absent)
                        ELSE Record(Absent, s, sc)] :
                        c \in {Absent, Id(0), Id(1)}, s \in {Absent, Id(7)},
                        sc \in {Absent, Id(1)}}
    /\ cache = [cell \in Cells |-> Unset]
    /\ hist = [cell \in Cells |-> NoHist]
    /\ ops = 0
    /\ last = NoCall
    /\ RequestIdle /\ ClassifyIdle /\ PropIdle /\ GetIdle /\ DownloadIdle /\ BondsIdle
NextEntity == Access \/ ToDict
SpecEntity == InitEntity /\ [][NextEntity]_vars

InitGet ==
    /\ call \in Calls
    /\ pc = "get"
    /\ locIdentifier = call.args.identifier
    /\ locNamespace = call.args.namespace
    /\ response = NoResponse /\ log = <<>> /\ ret = Pending /\ out = Pending
    /\ RequestIdle /\ ClassifyIdle /\ PropIdle /\ EntityIdle /\ DownloadIdle /\ BondsIdle
NextGet == GetFirst \/ GetSleep \/ GetPoll \/ GetFinal \/ GetDirect
SpecGet == InitGet /\ [][NextGet]_vars
\* get() is sequential code: a step that can be taken is taken
SpecGetFair == SpecGet /\ WF_vars(NextGet)

InitDownload ==
    /\ call \in DownloadCalls
    /\ pc = "get"
    /\ locIdentifier = call.args.identifier
    /\ locNamespace = call.args.namespace
    /\ response = NoResponse /\ log = <<>> /\ ret = Pending /\ out = Pending
    /\ file \in {NoFile, RegularFile(OldContent), Directory}
    /\ dl \in {[active |-> TRUE, overwrite |-> o, python |-> v, before |-> file] :
                  o \in BOOLEAN, v \in {2, 3}}
    /\ dlOut = Pending
    /\ RequestIdle /\ ClassifyIdle /\ PropIdle /\ EntityIdle /\ BondsIdle
NextDownload == GetFirst \/ GetSleep \/ GetPoll \/ GetFinal \/ GetDirect \/ DownloadWrite
SpecDownload == InitDownload /\ [][NextDownload]_vars

InitBonds ==
    /\ bdIn \in {[blist |-> b, present |-> p, style |-> s] :
                    b \in BondLists, p \in BOOLEAN, s \in Styles}
    /\ bdOut = NotComputed
    /\ RequestIdle /\ ClassifyIdle /\ PropIdle /\ GetIdle /\ EntityIdle /\ DownloadIdle
NextBonds == Bonds
SpecBonds == InitBonds /\ [][NextBonds]_vars

InitProp ==
    /\ ppIn \in {[search |-> s, proplist |-> pl] : s \in Searches, pl \in Proplists}
    /\ ppOut = NotParsed
    /\ RequestIdle /\ ClassifyIdle /\ GetIdle /\ EntityIdle /\ DownloadIdle /\ BondsIdle
NextProp == ParseProp
SpecProp == InitProp /\ [][NextProp]_vars

InitRequest ==
    rqArgs \in RequestArgs /\ rqOut = IdleOut /\ ClassifyIdle /\ PropIdle /\ GetIdle /\ EntityIdle
    /\ DownloadIdle /\ BondsIdle
NextRequest == RequestReturns \/ RequestRaises
SpecRequest == InitRequest /\ [][NextRequest]_vars

InitClassify ==
    errIn \in HTTPErrors /\ errOut = NoError /\ RequestIdle /\ PropIdle /\ GetIdle /\ EntityIdle
    /\ DownloadIdle /\ BondsIdle
NextClassify == Classify
SpecClassify == InitClassify /\ [][NextClassify]_vars

(***************************************************************************)
(* How the claims read a request off the wire                              *)
(***************************************************************************)
\* the server's decoding of a percent-encoded str
HexPair(a, b) ==
    CASE a = "2" /\ b = "C" -> ","
      [] a = "2" /\ b = "0" -> " "
      [] a = "2" /\ b = "5" -> "%"
      [] OTHER -> "?"
RECURSIVE Unquote(_)
Unquote(s) ==
    IF s = <<>> THEN <<>>
    ELSE IF s[1] = "%" /\ Len(s) >= 3
         THEN <<HexPair(s[2], s[3])>> \o Unquote(SubSeq(s, 4, Len(s)))
    ELSE <<s[1]>> \o Unquote(Tail(s))

IsDigit(c) == \E d \in 1..10 : Digits[d] = c
DigitVal(c) == (CHOOSE d \in 1..10 : Digits[d] = c) - 1
RECURSIVE DecVal(_)
DecVal(s) == IF s = <<>> THEN 0 ELSE 10 * DecVal(SubSeq(s, 1, Len(s) - 1)) + DigitVal(s[Len(s)])
\* s is the decimal numeral of n
IsDecimalOf(s, n) ==
    LET d == IF n < 0 THEN Tail(s) ELSE s
    IN /\ s # <<>>
       /\ n < 0 => s[1] = "-"
       /\ d # <<>>
       /\ \A i \in 1..Len(d) : IsDigit(d[i])
       /\ Len(d) > 1 => d[1] # "0"
       /\ DecVal(d) = (IF n < 0 THEN -n ELSE n)

\* the number of truthy components among comps
TruthyCount(comps) == Cardinality({i \in 1..Len(comps) : Truthy(comps[i])})

\* the identifier as the request of rqOut carries it, still percent-encoded
SentId ==
    IF ~rqOut.req.urlid.none THEN rqOut.req.urlid.s
    ELSE SubSeq(rqOut.req.postdata.s, Len(Fmt(rqArgs.namespace)) + 2,
                Len(rqOut.req.postdata.s))

\* the rule of the claim for the place of the identifier
UrlCase ==
    \/ rqArgs.namespace.s \in {<<"listkey">>, <<"formula">>, <<"sourceid">>}
    \/ rqArgs.searchtype.s # <<>> /\ rqArgs.namespace.s = <<"cid">>
    \/ rqArgs.domain.s = <<"sources">>

\* C1: every request carries its identifier in exactly one place: as the path
\* segment after the namespace, with no POST body, when the namespace is listkey,
\* formula or sourceid, or a searchtype is set with namespace cid, or the domain is
\* sources; otherwise only in the POST body, as the field the namespace names,
\* the path being made of the other components alone.
C1_Placement ==
    rqOut.sent =>
        LET req == rqOut.req
            fixed == TruthyCount(<<API_BASE, rqArgs.domain, rqArgs.searchtype,
                                   rqArgs.namespace>>)
            rest == TruthyCount(<<rqArgs.operation, rqArgs.output>>)
        IN /\ req.urlid.none # req.postdata.none
           /\ UrlCase <=> ~req.urlid.none
           /\ UrlCase =>
                 /\ req.postdata = None
                 /\ req.urlid.s = quote(req.identifier)
                 /\ req.identifier # <<>> =>
                       /\ Len(req.comps) = fixed + 1 + rest
                       /\ req.comps[fixed + 1] = req.urlid.s
                 /\ req.identifier = <<>> => Len(req.comps) = fixed + rest
           /\ ~UrlCase =>
                 /\ req.urlid = None
                 /\ req.postdata.s = Fmt(rqArgs.namespace) \o <<"=">> \o quote(req.identifier)
                 /\ Len(req.comps) = fixed + rest
                 /\ req.comps = FilterNone(<<API_BASE, rqArgs.domain, rqArgs.searchtype,
                                            rqArgs.namespace, rqArgs.operation,
                                            rqArgs.output>>)

\* a substructure search by cid was sent with its identifier in the path
C1_Witness ==
    /\ rqOut.sent
    /\ rqArgs.searchtype = Str(<<"substructure">>)
    /\ rqArgs.namespace = Str(<<"cid">>)
    /\ rqArgs.domain = Str(<<"compound">>)
    /\ rqArgs.identifier = ListId(<<IntElem(7), IntElem(12)>>)
    /\ rqOut.req.postdata = None
    /\ rqOut.req.comps[5] = <<"7", "%", "2", "C", "1", "2">>

\* the length of str(x) of a list element
ElemLen(x) == IF x.t = "int" THEN Len(DecStr(x.n)) ELSE Len(x.s)
RECURSIVE Offset(_, _)
\* where element i starts in the comma-join of l (0-based)
Offset(l, i) == IF i = 1 THEN 0 ELSE Offset(l, i - 1) + ElemLen(l[i - 1]) + 1
\* s with '/' for '.' undone nowhere: s is t with every '/' replaced by '.'
IsSlashToDot(s, t) ==
    /\ Len(s) = Len(t)
    /\ \A i \in 1..Len(t) : s[i] = (IF t[i] = "/" THEN "." ELSE t[i])
\* s is str(x) of the list element x, '/' replaced when dots is set
IsStrOfElem(s, x, dots) ==
    IF x.t = "int" THEN IsDecimalOf(s, x.n)
    ELSE IF dots THEN IsSlashToDot(s, x.s) ELSE s = x.s

\* C2: the identifier a request carries is, once percent-decoded, the decimal
\* numeral of an int, a str as given, and for a list the str forms of its elements
\* in order with one comma between neighbours; under namespace sourceid every '/'
\* of it is a '.', under every other namespace no '/' is changed.
C2_IdentifierString ==
    rqOut.sent =>
        LET id == rqArgs.identifier
            x == Unquote(SentId)
            dots == rqArgs.namespace.s = <<"sourceid">>
        IN /\ id.t = "int" => IsDecimalOf(x, id.n)
           /\ id.t = "str" => IF dots THEN IsSlashToDot(x, id.s) ELSE x = id.s
           /\ id.t = "list" =>
                 /\ id.l = <<>> => x = <<>>
                 /\ id.l # <<>> =>
                       /\ Len(x) = Offset(id.l, Len(id.l)) + ElemLen(id.l[Len(id.l)])
                       /\ \A i \in 1..Len(id.l) :
                             /\ IsStrOfElem(SubSeq(x, Offset(id.l, i) + 1,
                                                   Offset(id.l, i) + ElemLen(id.l[i])),
                                            id.l[i], dots)
                             /\ i < Len(id.l) =>
                                   x[Offset(id.l, i) + ElemLen(id.l[i]) + 1] = ","
           /\ (id = ListId(<<IntElem(7), IntElem(12)>>)) => x = <<"7", ",", "1", "2">>
           /\ (id = StrId(<<"a", "/">>) /\ dots) => SentId = <<"a", ".">>
           /\ (id = StrId(<<"a", "/">>) /\ ~dots) => SentId = <<"a", "/">>

\* a source id with a '/' was sent under namespace sourceid, as a path segment
C2_Witness ==
    /\ rqOut.sent
    /\ rqArgs.namespace = Str(<<"sourceid">>)
    /\ rqArgs.identifier = ListId(<<StrElem(<<"/">>), IntElem(305)>>)
    /\ rqOut.req.urlid = Str(<<".", "%", "2", "C", "3", "0", "5">>)

(***************************************************************************)
(* The error classifier                                                    *)
(***************************************************************************)
\* sub occurs in s
Contains(s, sub) == \E i \in 0..(Len(s) - Len(sub)) : SubSeq(s, i + 1, i + Len(sub)) = sub

\* the fixed table of the claim
KindTable == {<<400, "BadRequestError">>, <<404, "NotFoundError">>,
              <<405, "MethodNotAllowedError">>, <<500, "ServerError">>,
              <<501, "UnimplementedError">>, <<504, "TimeoutError">>}
ExpectedKind(code) ==
    IF \E p \in KindTable : p[1] = code
    THEN (CHOOSE p \in KindTable : p[1] = code)[2]
    ELSE "PubChemHTTPError"
\* the body is a JSON object whose Fault.Details is a list with a first element
HasFaultDetail(body) ==
    body.top = "obj" /\ body.fault = "obj" /\ body.details = "list" /\ body.items # <<>>

\* C6: for every status code and every body the classifier yields the kind of the
\* fixed table (the generic error, with the raw code, for any other code), with a
\* message that contains the reason text, and the first fault detail when the body
\* has one; no body makes it fail in any other way.
C6_Classifier ==
    errOut.done =>
        /\ errOut.kind = ExpectedKind(errIn.code)
        /\ errOut.kind = "PubChemHTTPError" => errOut.hasCode /\ errOut.code = errIn.code
        /\ Contains(errOut.msg, errIn.reason)
        /\ HasFaultDetail(errIn.body) => Contains(errOut.msg, errIn.body.items[1])

(***************************************************************************)
(* The tag-filter lookup                                                   *)
(***************************************************************************)
\* entry i of the list carries every (field, value) pair of the filter
FullMatch(i) ==
    \A k \in DOMAIN ppIn.search :
        k \in DOMAIN ppIn.proplist[i].urn /\ ppIn.proplist[i].urn[k] = ppIn.search[k]
\* the value of entry i
ValueOf(i) ==
    LET val == ppIn.proplist[i].value
    IN IF "sval" \in DOMAIN val THEN val.sval ELSE val.fval

\* C10: _parse_prop returns the value of the first entry, in list order, whose
\* urn holds every (field, value) pair of the filter, whatever other fields the urn
\* has, skipping the entries that match only some of the pairs; it returns nothing,
\* and raises nothing, when no entry matches.
C10_FirstFullMatch ==
    ppOut.done =>
        LET hits == {i \in 1..Len(ppIn.proplist) : FullMatch(i)}
        IN IF hits = {} THEN ~ppOut.found
           ELSE /\ ppOut.found
                /\ ppOut.v = ValueOf(CHOOSE i \in hits : \A j \in hits : i <= j)

\* the filter {label: Mass, name: Exact} skipped an entry that matches the label
\* alone and returned the first of two full matches
C10_Witness ==
    /\ ppOut.done
    /\ ppIn.search = [label |-> "Mass", name |-> "Exact"]
    /\ ppIn.proplist = <<[urn |-> [label |-> "Mass", name |-> "MonoIsotopic"],
                          value |-> [sval |-> 1]],
                         [urn |-> [label |-> "Mass", name |-> "Exact"],
                          value |-> [fval |-> 2]],
                         [urn |-> [label |-> "Mass", name |-> "Exact"],
                          value |-> [sval |-> 1]]>>
    /\ ppOut.found /\ ppOut.v = 2

(***************************************************************************)
(* The fetches                                                             *)
(***************************************************************************)
\* the answers of the service that are errors, in the order they were given
FailedAt(i) == log[i].ev = "request" /\ ~log[i].answer.ok

\* what get() returns for the call c when the service answers its first request
\* with the payload, no waiting indicator (lines 79-81 and 92)
ReturnedWithoutWaiting(c) == Bytes(PayloadFor(FirstArgs(c)))

\* C3: an async fetch whose first response is a waiting ticket and which resolves
\* to a payload after one or more polls returns what the same fetch returns when
\* the service answers the first request with the payload: for every operation
\* and every output.
C3_SameAsWithoutWaiting ==
    (/\ pc = "done" /\ IsAsync(call.args) /\ ret.state = "returned"
     /\ IsWaiting(log[1].answer.resp)
     /\ ret.value.resp.kind = "payload")
    => ret.value = ReturnedWithoutWaiting(call.args)

\* C4: a fetch with no searchtype and a namespace other than formula sends one
\* request, with the arguments of the caller unchanged, never sleeps, and returns
\* the response of that request as it is, a waiting indicator in it or not.
C4_DirectFetch ==
    (pc # "idle" /\ ~IsAsync(call.args)) =>
        /\ \A i \in 1..Len(log) : log[i].ev = "request"
        /\ Len(log) <= 1
        /\ pc = "done" =>
              /\ Len(log) = 1
              /\ log[1].req = call.args
              /\ log[1].answer.ok => ret = Returned(Bytes(log[1].answer.resp))

\* a fetch by name for SDF output returned the waiting document it was answered
C4_Witness ==
    /\ pc = "done" /\ call.fn = "get"
    /\ call.args.namespace = Str(<<"name">>) /\ call.args.searchtype = None
    /\ call.args.output = Str(<<"SDF">>) /\ call.args.operation = Str(<<"cids">>)
    /\ call.args.kwargs # <<>>
    /\ Len(log) = 1
    /\ ret = Returned(Bytes(Waiting(<<"k1">>)))

\* C5: when a request of get_json or of a list-returning fetch fails with
\* NotFound, be it the first request or a poll, get_json returns None and the
\* list-returning fetch an empty list, and nothing is raised; when it fails with
\* any other kind, that error is raised to the caller.
C5_NotFoundOnly ==
    \A i \in 1..Len(log) :
        (FailedAt(i) /\ call.fn \in JsonFns) =>
            /\ pc = "done"
            /\ log[i].answer.err.kind = "NotFoundError" =>
                  out = (IF call.fn = "get_json" THEN Returned(NoneValue)
                         ELSE Returned(List(<<>>)))
            /\ log[i].answer.err.kind # "NotFoundError" =>
                  out = Raised(log[i].answer.err)

\* a substructure search for cids was answered NotFound at its second poll and
\* gave an empty list
C5_Witness ==
    /\ pc = "done" /\ call.fn = "get_cids"
    /\ Len(log) = 5 /\ FailedAt(5)
    /\ log[5].answer.err.kind = "NotFoundError"
    /\ out = Returned(List(<<>>))

(***************************************************************************)
(* Claims about the memoized accessors and to_dict, under SpecEntity       *)
(***************************************************************************)
\* the record of instance i holds its identity
HasIdentity(i) ==
    IF ClassOf(i) = "Compound" THEN ~records[i].cid.none /\ records[i].cid.n # 0
    ELSE ~records[i].sid.none
\* no fetch for instance i was answered with an error other than NotFound
OnlyNotFound(i) == \A cell \in Cells : cell[1] = i => hist[cell].errors = 0
\* the accessors of instances with an identity whose fetches succeeded or
\* answered NotFound
Covered == {cell \in Cells : HasIdentity(cell[1]) /\ OnlyNotFound(cell[1])}
\* the last call read the accessor cell, by itself or within an export
LastRead(cell) ==
    /\ last.inst = cell[1]
    /\ \/ last.op = "access" /\ last.field = cell[2]
       \/ last.op = "to_dict" /\ \E k \in 1..Len(last.names) : last.names[k] = cell[2]

\* C7 as stated: for an instance with an identity whose fetches succeed or
\* answer NotFound, every accessor read at least once has fetched exactly
\* once and is cached; a read after the first returns the cached value and
\* sends nothing; an access fills no cache but that of its own accessor.
C7_OneFetchPerField ==
    /\ \A cell \in Covered :
          /\ hist[cell].accesses >= 1 => hist[cell].fetches = 1 /\ cache[cell].set
          /\ hist[cell].accesses >= 2 /\ last.op = "access" /\ LastRead(cell) =>
                last.reqs = <<>> /\ last.out = Returned(cache[cell].value)
    /\ last.op = "access" => last.filled \subseteq {<<last.inst, last.field>>}

\* what C7 holds of the state: the accessors that go through get_json have
\* fetched exactly once when read, a NotFound caching the empty list; the
\* standardized compound of a record that names none has fetched nothing and
\* caches None, and of a record that names one has fetched once for every
\* NotFound (which the read raised) and once more if it is cached
C7_Fetches(cell) ==
    LET h == hist[cell]
        c == cache[cell]
    IN IF cell[2] = "standardized_compound"
       THEN IF records[cell[1]].std.none
            THEN /\ h.fetches = 0
                 /\ h.accesses >= 1 => c = [set |-> TRUE, value |-> NoneValue]
            ELSE /\ h.fetches = h.notfounds + (IF c.set THEN 1 ELSE 0)
                 /\ h.fetches <= h.accesses
                 /\ h.accesses >= 1 /\ h.notfounds = 0 => c.set
                 /\ c.set => c.value.t = "Compound"
       ELSE /\ h.accesses = 0 => h.fetches = 0 /\ ~c.set
            /\ h.accesses >= 1 => h.fetches = 1 /\ c.set
            /\ h.accesses >= 1 /\ h.notfounds = 1 => c.value = List(<<>>)
\* what C7 holds of a call: a cached value stays; a read of a cached accessor
\* returns that value and sends nothing; only the instance called, and for an
\* access only the accessor read, has its cache changed
C7_Call ==
    ops' = ops + 1 =>
      /\ \A cell \in Cells :
            /\ cache[cell].set => cache'[cell] = cache[cell]
            /\ cache'[cell] # cache[cell] =>
                  /\ cell[1] = last'.inst
                  /\ last'.op = "access" => cell[2] = last'.field
      /\ last'.op = "access" /\ cache[<<last'.inst, last'.field>>].set =>
            /\ last'.reqs = <<>>
            /\ last'.out = Returned(cache[<<last'.inst, last'.field>>].value)
\* C7, amended: for an instance with an identity whose fetches succeed or
\* answer NotFound, synonyms, sids, aids and cids fetch exactly once, on the
\* first read; standardized_compound fetches nothing when the record names no
\* standardized compound, and fetches again on every read until a fetch
\* succeeds, a NotFound being raised and caching nothing; a read of a cached
\* accessor returns the cached value and sends nothing; a read changes no other
\* accessor's cache and no other instance's.
C7_OneFetchOnceCached ==
    /\ [](\A cell \in Covered : C7_Fetches(cell))
    /\ [][C7_Call]_vars
\* c1.synonyms read twice: one fetch, answered NotFound, the empty list cached
\* and returned again with nothing sent, no other cache filled
C7_Witness ==
    /\ <<"c1", "synonyms">> \in Covered
    /\ hist[<<"c1", "synonyms">>] = [accesses |-> 2, fetches |-> 1, notfounds |-> 1,
                                     errors |-> 0]
    /\ cache[<<"c1", "synonyms">>] = [set |-> TRUE, value |-> List(<<>>)]
    /\ last.op = "access" /\ last.inst = "c1" /\ last.field = "synonyms"
    /\ last.reqs = <<>> /\ last.out = Returned(List(<<>>))
    /\ \A cell \in Cells \ {<<"c1", "synonyms">>} : ~cache[cell].set

\* the record of instance i lacks its identity: the cid of a Compound, the sid
\* of a Substance
LacksIdentity(i) ==
    IF ClassOf(i) = "Compound" THEN records[i].cid.none ELSE records[i].sid.none
\* C8: a memoized accessor read on an entity whose record has no identity
\* returns an empty sequence, raises nothing and sends no request.
C8_EmptyWithoutIdentity ==
    last.op = "access" /\ LacksIdentity(last.inst) =>
        last.out = Returned(List(<<>>)) /\ last.reqs = <<>>

\* C9: to_dict called with no property list exports none of the memoized
\* accessors, sends no request and fills no cache.
C9_DefaultExportFetchesNothing ==
    last.op = "to_dict" /\ last.default =>
        /\ \A k \in 1..Len(last.names) : last.names[k] \notin MemoFields(ClassOf(last.inst))
        /\ last.reqs = <<>>
        /\ last.filled = {}

(***************************************************************************)
(* Claims about download(), under SpecDownload                             *)
(***************************************************************************)
\* C11: download to a destination that exists, without the overwrite flag,
\* fails with the error that says the destination exists and leaves what is
\* there as it was, whatever the fetch gave.
C11_ExistingDestination ==
    dlOut # Pending /\ isfile(dl.before) /\ ~dl.overwrite =>
        /\ dlOut.state = "raised" /\ dlOut.error.kind = "IOError"
        /\ file = dl.before

(***************************************************************************)
(* Claims about the polling of get(), under SpecGet                        *)
(***************************************************************************)
\* the fetch is async and its first request was answered with a ticket
Polling == pc # "idle" /\ IsAsync(call.args) /\ Len(log) >= 1 /\ IsWaiting(log[1].answer.resp)
\* the ticket of the first response
FirstTicket == StrId(log[1].answer.resp.listkey.s)
\* the request at i was answered, and not with a ticket to wait for
Resolved(i) == log[i].ev = "request" /\ log[i].answer.ok /\ ~IsWaiting(log[i].answer.resp)
\* the event at i is the request for the caller's output that follows the polls
IsFinal(i) ==
    /\ i = Len(log) /\ i > 1 /\ log[i].ev = "request" /\ log[i - 1].ev = "request"
    /\ Resolved(i - 1) /\ call.args.output # JSON

\* C12: once the first response of an async fetch carries a ticket, the log goes
\* sleep, poll, sleep, poll: every sleep is of 2, every poll follows one sleep and
\* an answer that carried a ticket, and is a request for the first ticket under
\* namespace listkey, with the caller's operation and JSON output; after an answer
\* without a ticket comes no sleep and no poll.
C12_Polling ==
    Polling =>
        /\ \A i \in 2..Len(log) :
              \/ IsFinal(i)
              \/ /\ i % 2 = 0
                 /\ log[i] = SleepEvent(2)
                 /\ IsWaiting(log[i - 1].answer.resp)
              \/ /\ i % 2 = 1
                 /\ log[i].ev = "request" /\ log[i - 1].ev = "sleep"
                 /\ log[i].req.identifier = FirstTicket
                 /\ log[i].req.namespace = Str(<<"listkey">>)
                 /\ log[i].req.operation = call.args.operation
                 /\ log[i].req.output = JSON
        /\ \A i \in 1..Len(log) :
              Resolved(i) => \A j \in (i + 1)..Len(log) : IsFinal(j)
        /\ pc = "sleep" => IsWaiting(log[Len(log)].answer.resp)
        /\ pc = "poll" => log[Len(log)].ev = "sleep"
\* two polls for the first ticket k1, the first of them answered with another
\* ticket, k2, the second with the payload
C12_Witness ==
    /\ Polling /\ pc = "done" /\ Len(log) = 5
    /\ log[1].answer.resp = Waiting(<<"k1">>)
    /\ log[3].answer.resp = Waiting(<<"k2">>)
    /\ log[5].req.identifier = StrId(<<"k1">>)
    /\ call.args.operation = Str(<<"cids">>)
    /\ log[5].answer.resp.kind = "payload"

\* the last poll of a fetch that polled
LastPoll == IF IsFinal(Len(log)) THEN Len(log) - 1 ELSE Len(log)
\* C13: when the polling of a fetch has ended and get() has returned, the log
\* ends with one more request exactly if the caller's output is not JSON; that
\* request is the last poll with the caller's output in place of JSON and nothing
\* else changed, and get() returns its payload; otherwise get() returns the
\* response of the last poll.
C13_FinalRequest ==
    (Polling /\ pc = "done" /\ ret.state = "returned") =>
        /\ IsFinal(Len(log)) <=> call.args.output # JSON
        /\ log[LastPoll].ev = "request" /\ log[LastPoll - 1].ev = "sleep"
        /\ IsFinal(Len(log)) =>
              /\ log[Len(log)].req = [log[LastPoll].req EXCEPT !.output = call.args.output]
              /\ log[Len(log)].req.namespace = Str(<<"listkey">>)
              /\ log[Len(log)].req.identifier = FirstTicket
        /\ ret = Returned(Bytes(log[Len(log)].answer.resp))

\* C15: when a request of get() fails, be it the first, a poll or the last, it
\* is the last event of the log: get() has ended and raised the error of that
\* request as it is.
C15_ErrorEndsGet ==
    \A i \in 1..Len(log) :
        FailedAt(i) =>
            /\ i = Len(log)
            /\ pc = "done"
            /\ ret = Raised(log[i].answer.err)
            /\ call.fn = "get" => out = ret
\* the second poll of get() failed with a server error, which get() raised
C15_Witness ==
    /\ call.fn = "get" /\ Polling /\ pc = "done" /\ Len(log) = 5
    /\ FailedAt(5) /\ log[5].answer.err.kind = "ServerError"
    /\ out = Raised(log[5].answer.err)

(***************************************************************************)
(* Termination of get(), under SpecGetFair                                 *)
(***************************************************************************)
\* the last request of the log is the first one or a poll and was answered with
\* a ticket to wait for
StillWaiting ==
    /\ Polling
    /\ \E i \in 1..Len(log) :
          /\ log[i].ev = "request" /\ ~IsFinal(i)
          /\ \A j \in (i + 1)..Len(log) : log[j].ev = "sleep"
          /\ log[i].answer.ok
          /\ log[i].answer.resp.kind = "waiting" /\ ~log[i].answer.resp.listkey.none
\* C16: while the last answer is a ticket to wait for, get() is about to sleep
\* or to poll and has neither returned nor raised, however many polls it has
\* made; and get() ends once the service answers without a ticket or with an
\* error, which the service here does after MaxPolls requests at the latest.
C16_PollsUntilAnswered ==
    /\ [](StillWaiting => pc \in {"sleep", "poll"} /\ ret = Pending)
    /\ [](pc \in {"sleep", "poll"} => StillWaiting)
    /\ <>(pc = "done")
\* get() is polling for the third time: as often as the service lets it here
C16_Witness ==
    /\ StillWaiting /\ pc = "poll" /\ Requests(log) = MaxPolls /\ Len(log) = 2 * MaxPolls

(***************************************************************************)
(* Claims about Compound.bonds, under SpecBonds                            *)
(***************************************************************************)
\* the atom-ID pair of bond j of the record contains both atom IDs that
\* annotation i refers to
PairContains(j, i) ==
    LET b == bdIn.blist[j]
        s == bdIn.style[i]
    IN s.aid1 \in {b.aid1, b.aid2} /\ s.aid2 \in {b.aid1, b.aid2}
\* every annotation refers to the atoms of some bond of the record
EveryAnnotationHasBond ==
    \A i \in 1..Len(bdIn.style) : \E j \in 1..Len(bdIn.blist) : PairContains(j, i)

\* C14: in a record whose every annotation refers to the atoms of some bond,
\* bonds attaches annotation i to the first bond, in record order, whose atom-ID
\* pair contains both atom IDs of the annotation, and so to no bond whose pair
\* does not contain both, whatever the order of that bond.
C14_FirstPairMatch ==
    (bdOut.done /\ bdIn.present /\ EveryAnnotationHasBond) =>
        /\ ~bdOut.raised
        /\ Len(bdOut.attached) = Len(bdIn.style)
        /\ \A i \in 1..Len(bdOut.attached) :
              /\ PairContains(bdOut.attached[i], i)
              /\ \A j \in 1..(bdOut.attached[i] - 1) : ~PairContains(j, i)

(***************************************************************************)
(* Claims about failing fetches of the memoized accessors, under           *)
(* SpecEntity                                                              *)
(***************************************************************************)
\* the fetch of the accessor cell, made in this step, was answered with an
\* error that the accessor does not turn into a value: any but NotFound, and
\* NotFound too for standardized_compound
FetchFailed(cell) ==
    \/ hist'[cell].errors = hist[cell].errors + 1
    \/ cell[2] = "standardized_compound" /\ hist'[cell].notfounds = hist[cell].notfounds + 1
\* the kinds of the errors of the service here: of 404 and of 500
ServiceErrorKinds == {"NotFoundError", "ServerError"}
\* C17 for an access: when the fetch fails with an error that is propagated, the
\* access raises that error and no cache changes; an access of an accessor
\* whose fetch failed before and that is not cached fetches again; a value once
\* cached stays as it is.
C17_Access ==
    (ops' = ops + 1 /\ last'.op = "access") =>
        LET cell == <<last'.inst, last'.field>>
        IN /\ FetchFailed(cell) =>
                 /\ last'.out.state = "raised"
                 /\ last'.out.error.kind \in ServiceErrorKinds
                 /\ last'.out.error.kind = "NotFoundError" =>
                       cell[2] = "standardized_compound"
                 /\ cache' = cache /\ ~cache'[cell].set
           /\ (hist[cell].errors >= 1 /\ ~cache[cell].set) => Len(last'.reqs) = 1
           /\ last'.out.state = "raised" => cache' = cache
           /\ \A other \in Cells : cache[other].set => cache'[other] = cache[other]
\* C17: a failed fetch of a memoized accessor reaches the caller and is never
\* cached, the next access fetches again, and a cached value is never replaced.
C17_FailureNotCached == [][C17_Access]_vars
\* c2.synonyms read twice: the first fetch failed with a server error, the second
\* access fetched again and its value is cached
C17_Witness ==
    /\ hist[<<"c2", "synonyms">>] = [accesses |-> 2, fetches |-> 2, notfounds |-> 0,
                                     errors |-> 1]
    /\ cache[<<"c2", "synonyms">>].set
    /\ last.op = "access" /\ last.inst = "c2" /\ last.field = "synonyms"
    /\ Len(last.reqs) = 1 /\ last.out.state = "returned"

====
